---- MODULE Spec2Model ----
(***************************************************************************)
(* The project board of the drag-and-drop demo.                            *)
(*                                                                         *)
(* The store: ProjectState, a lazily created singleton holding Project     *)
(* objects and a list of listener callbacks, with addListener, addProject  *)
(* and moveProject.  The board around it: the ProjectInput form, whose     *)
(* submit handler validates the three fields and calls addProject; the     *)
(* active and the finished ProjectList, whose callback filters the         *)
(* notified list and whose drop handler calls moveProject; the ProjectItem *)
(* whose dragstart handler hands over the project's id.  And callbacks     *)
(* written outside the repository, which write to what a notification      *)
(* hands them or call the store from inside it.                            *)
(*                                                                         *)
(* Objects are modelled with their identity: a Project is a cell of        *)
(* `heap` and arrays hold references (indices into `heap`), so that the    *)
(* shallow copy `[...this.projects]` copies references, not records.       *)
(* Texts typed into the form are sequences of characters, so that trim,    *)
(* length and parseInt are computed.  An event handler runs to completion: *)
(* each is one action, nested calls included.                              *)
(***************************************************************************)
EXTENDS Integers, Sequences, FiniteSets, TLC

\* ------------------------------------------------------------------ bounds
MaxProjects == 2
MaxListeners == 2
\* The deepest nesting of store operations the call stack has room for.
MaxDepth == 2
\* The most calls a counting callback is followed for.
MaxCalls == 3

\* The longest string and the largest number validate is handed.
MaxLength == 2
MaxNumber == 2

\* ------------------------------------------------------------------ inputs
\* Argument triples (title, description, numOfPeople) a caller passes to
\* addProject.
Inputs == {<<"A", "desc", 3>>, <<"B", "desc2", 1>>}
\* ... and triples the form would not let through: nothing at all with no
\* people, and a blank title with more people than the form's maximum.
RejectedInputs == {<<"", "", 0>>, <<" ", "desc2", 6>>}
\* Outcomes of Math.random().toString(): the generator may repeat a value.
RandomIds == {"0.1", "0.2"}
\* Texts a caller may pass to moveProject as projectId.
ProjectIds == RandomIds

\* enum ProjectStatus { Active, Finished }
ProjectStatus == {"Active", "Finished"}

\* What the user may have typed into the title, description and people
\* fields when the form is submitted: entries the form lets through (a
\* title with a leading blank, a description of one letter and four
\* blanks, people as digits followed by a letter or preceded by a blank) ...
AcceptedEntries ==
    {[title |-> <<" ", "A">>, description |-> <<"d", "e", "s", "c", "r">>,
      people |-> <<"5", "x">>],
     [title |-> <<"B">>, description |-> <<"d", " ", " ", " ", " ">>,
      people |-> <<" ", "1">>]}
\* ... and entries it does not: all fields empty, a blank title, a blank
\* description of five characters, a description of four letters, no
\* people, people that is no number, zero people, six people.
RejectedEntries ==
    {[title |-> <<>>, description |-> <<>>, people |-> <<>>],
     [title |-> <<" ">>, description |-> <<"d", "e", "s", "c", "r">>,
      people |-> <<"3">>],
     [title |-> <<"A">>, description |-> <<" ", " ", " ", " ", " ">>,
      people |-> <<"3">>],
     [title |-> <<"A">>, description |-> <<"d", "e", "s", "c">>,
      people |-> <<"3">>],
     [title |-> <<"A">>, description |-> <<"d", "e", "s", "c", "r">>,
      people |-> <<>>],
     [title |-> <<"A">>, description |-> <<"d", "e", "s", "c", "r">>,
      people |-> <<"x">>],
     [title |-> <<"A">>, description |-> <<"d", "e", "s", "c", "r">>,
      people |-> <<"0">>],
     [title |-> <<"A">>, description |-> <<"d", "e", "s", "c", "r">>,
      people |-> <<"6">>]}
FormEntries == AcceptedEntries \cup RejectedEntries
\* Texts a drag from outside the board may carry.
ForeignTexts == {"text"}

\* The two list types of the board.
ListTypes == {"active", "finished"}
\* What a callback written outside the repository may do with the array it
\* is called with: write to the array, or to the first record in it.
ArrayWrites == {"pop", "push", "reverse"}
RecordWrites == {"setStatus", "setId"}
\* ... or call the store: add a project of its own at every notification,
\* or move the first project it is handed to Finished while it is Active.
StoreCalls == {"addProject", "moveProject"}
\* ... or count its calls and keep the list it was handed.
Counting == "count"

VARIABLES
    program,    \* the script that runs: "part_003" (the store with moveProject),
                \* "main.ts" or "part_002" (the stores without it)
    instance,   \* ProjectState.instance: 0 while undefined, else a store reference
    stores,     \* the ProjectState objects constructed so far
    heap,       \* the Project objects constructed so far
    closures,   \* the listener callbacks created so far, in creation order
    refs,       \* the store references getInstance has returned
    round,      \* the listener calls made by the latest operation, in call order
    projectInput,   \* the values of the form's title, description and people
                    \* input elements (empty before anything is typed)
    dataTransfer,   \* the data store of the drag in progress
    last        \* the latest operation, its arguments and its outcome; for a
                \* moveProject also whether it changed a status (moved),
                \* whether it repeats the call before it, which did (again),
                \* whether it asks for the status that the call before it,
                \* for the same id, moved the project away from (back), and
                \* the records and the stored sequence it started from (before)

ui == <<projectInput, dataTransfer>>
vars == <<program, instance, stores, heap, closures, refs, round, projectInput, dataTransfer, last>>

\* ------------------------------------------------------------- Project
\* new Project(id, title, description, people, status)
Project(id, title, description, people, status) ==
    [id |-> id, title |-> title, description |-> description,
     people |-> people, status |-> status]

\* ------------------------------------------------------------- arrays
\* Array.prototype.push
push(arr, x) == Append(arr, x)

\* [...arr]: a fresh array holding the same references.  An array handed
\* to a callback is either such a private array or the store's live one.
\* Faulty variant: the live array itself is handed out.
spread_alias(arr) == [live |-> TRUE, items |-> arr]
spread(arr) == [live |-> FALSE, items |-> arr]

\* Array.prototype.findIndex(({ id }) => id === projectId): the 0-based
\* index of the first match, -1 when there is none.
findIndex(st, arr, projectId) ==
    LET hits == {i \in DOMAIN arr : st.heap[arr[i]].id = projectId}
    IN  IF hits = {} THEN -1
        ELSE (CHOOSE i \in hits : \A j \in hits : i <= j) - 1

\* Array.prototype.filter(({ status }) => status === wanted)
RECURSIVE filter(_, _, _)
filter(st, arr, wanted) ==
    IF arr = <<>> THEN <<>>
    ELSE LET rest == filter(st, Tail(arr), wanted)
         IN  IF st.heap[Head(arr)].status = wanted
             THEN <<Head(arr)>> \o rest ELSE rest

Reverse(arr) == [i \in DOMAIN arr |-> arr[Len(arr) + 1 - i]]

\* The array a handle denotes, and a write through the handle.
Deref(st, s, arg) == IF arg.live THEN st.stores[s].projects ELSE arg.items
WriteArray(st, s, arg, new) ==
    IF arg.live THEN [st EXCEPT !.stores[s].projects = new] ELSE st

\* ----------------------------------------------------------- listeners
StatusOf(type) == IF type = "active" THEN "Active" ELSE "Finished"

\* The callback ProjectList.configure registers:
\*   assignedProjects = projects.filter(status === own status); renderProjects()
\* Faulty variants: the callback keeps every project it is handed; it also
\* marks the first project it was handed
\* with its own status.
ProjectListListener_unfiltered(st, c, items) ==
    [st EXCEPT !.closures[c].assignedProjects = items]
ProjectListListener_marking(st, c, items) ==
    LET marked == IF items = <<>> THEN st
                  ELSE [st EXCEPT !.heap[items[1]].status = StatusOf(st.closures[c].kind)]
    IN  [marked EXCEPT !.closures[c].assignedProjects =
            filter(marked, items, StatusOf(st.closures[c].kind))]
ProjectListListener(st, c, items) ==
    [st EXCEPT !.closures[c].assignedProjects =
        filter(st, items, StatusOf(st.closures[c].kind))]

\* A callback from outside the repository, of type Listener<Project>:
\* it writes to the array it was handed, or to the first record in it, or
\* it calls the store (st.act says which, for the calls of one operation).
\* A call for which the stack has no room left throws a RangeError.
RECURSIVE addProject(_, _, _, _, _, _)
RECURSIVE moveProject(_, _, _, _)
ExternalListener(st, s, c, arg) ==
    LET items == Deref(st, s, arg)
        kind == st.act
    IN  CASE kind = "none" -> st
          [] kind = "pop" ->
               WriteArray(st, s, arg, SubSeq(items, 1, Len(items) - 1))
          [] kind = "push" ->
               WriteArray(st, s, arg,
                          IF items = <<>> THEN items ELSE push(items, items[1]))
          [] kind = "reverse" -> WriteArray(st, s, arg, Reverse(items))
          [] kind = "setStatus" ->
               IF items = <<>> THEN st
               ELSE [st EXCEPT !.heap[items[1]].status =
                        IF @ = "Active" THEN "Finished" ELSE "Active"]
          [] kind = "setId" ->
               IF items = <<>> THEN st
               ELSE [st EXCEPT !.heap[items[1]].id = "x"]
          [] kind = "count" ->
               [st EXCEPT !.closures[c].calls = @ + 1,
                          !.closures[c].assignedProjects = items]
          [] kind = "addProject" ->
               IF st.depth >= MaxDepth THEN [st EXCEPT !.error = "RangeError"]
               ELSE addProject([st EXCEPT !.rnds = Tail(@)], s,
                               "again", "from a subscriber", 1, Head(st.rnds))
          [] kind = "moveProject" ->
               IF items = <<>> \/ st.heap[items[1]].status # "Active" THEN st
               ELSE IF st.depth >= MaxDepth THEN [st EXCEPT !.error = "RangeError"]
               ELSE moveProject(st, s, st.heap[items[1]].id, "Finished")

\* listenerFunc(arg): one call of callback c; the call is recorded in
\* `round` with the nesting depth of the store operation that makes it,
\* with what the callee was handed, as it stood when called, and with what
\* an outside callee wrote.
listenerFunc(st, s, c, arg) ==
    LET items == Deref(st, s, arg)
        called == [st EXCEPT !.round = Append(@,
                      [listener |-> c, depth |-> st.depth, refs |-> items,
                       items |-> [i \in DOMAIN items |-> st.heap[items[i]]],
                       wrote |-> IF st.closures[c].kind \in ListTypes
                                 THEN "none" ELSE st.act])]
    IN  IF st.closures[c].kind \in ListTypes
        THEN ProjectListListener(called, c, items)
        ELSE ExternalListener(called, s, c, arg)

\* Array.prototype.forEach over ls: the callbacks are called in index order,
\* each with its own [...this.projects], evaluated when its turn comes; an
\* error thrown by a callback ends the loop.
RECURSIVE forEach(_, _, _, _)
forEach(st, s, ls, i) ==
    IF i > Len(ls) \/ st.error # "none" THEN st
    ELSE forEach(listenerFunc(st, s, ls[i], spread(st.stores[s].projects)),
                 s, ls, i + 1)

\* ProjectState.updateListeners.
\* Faulty variants: nobody is called before the method returns; back to
\* front; the last listener forgotten.
updateListeners_later(st, s) == st
updateListeners_reversed(st, s) == forEach(st, s, Reverse(st.stores[s].listeners), 1)
updateListeners_skipLast(st, s) ==
    forEach(st, s, SubSeq(st.stores[s].listeners, 1, Len(st.stores[s].listeners) - 1), 1)
updateListeners(st, s) == forEach(st, s, st.stores[s].listeners, 1)

\* ------------------------------------------------------- ProjectState
\* Entering and leaving a method of the store: the call is recorded with
\* its arguments and the depth at which it runs.
Enter(st, op, args) ==
    [st EXCEPT !.depth = @ + 1,
               !.api = Append(@, [op |-> op, depth |-> st.depth + 1, args |-> args])]
Leave(st) == [st EXCEPT !.depth = @ - 1]

\* new ProjectState(): listeners = [], projects = []
NewProjectState == [listeners |-> <<>>, projects |-> <<>>]

\* State.addListener: this.listeners.push(listenerFunc).
\* Faulty variants: the new listener is called at once with the stored
\* projects; the earlier listeners dropped; unshift instead of push.
addListener_replay(st, s, c) ==
    listenerFunc([st EXCEPT !.stores[s].listeners = push(@, c)], s, c,
                 spread(st.stores[s].projects))
addListener_replace(st, s, c) == [st EXCEPT !.stores[s].listeners = <<c>>]
addListener_unshift(st, s, c) == [st EXCEPT !.stores[s].listeners = <<c>> \o @]
addListener(st, s, c) == [st EXCEPT !.stores[s].listeners = push(@, c)]

\* ProjectState.addProject: rnd is the value Math.random().toString() yields.
\* Faulty variants: a call made while a store method is running is
\* ignored; arguments the form would reject are refused; the new project is
\* Finished; unshift instead of push.
addProject_guarded(st, s, title, description, numOfPeople, rnd) ==
    LET entered == Enter(st, "addProject", <<title, description, numOfPeople>>)
        project == Project(rnd, title, description, numOfPeople, "Active")
        ref == Len(st.heap) + 1
        pushed == [entered EXCEPT !.heap = Append(@, project),
                                  !.stores[s].projects = push(@, ref)]
    IN  IF st.depth >= 1 THEN Leave(entered)
        ELSE Leave(updateListeners(pushed, s))
addProject_validating(st, s, title, description, numOfPeople, rnd) ==
    LET entered == Enter(st, "addProject", <<title, description, numOfPeople>>)
        project == Project(rnd, title, description, numOfPeople, "Active")
        ref == Len(st.heap) + 1
        pushed == [entered EXCEPT !.heap = Append(@, project),
                                  !.stores[s].projects = push(@, ref)]
    IN  IF title \in {"", " "} \/ numOfPeople < 1 \/ numOfPeople > 5
        THEN Leave([entered EXCEPT !.error = "Error"])
        ELSE Leave(updateListeners(pushed, s))
addProject_finished(st, s, title, description, numOfPeople, rnd) ==
    LET entered == Enter(st, "addProject", <<title, description, numOfPeople>>)
        project == Project(rnd, title, description, numOfPeople, "Finished")
        ref == Len(st.heap) + 1
        pushed == [entered EXCEPT !.heap = Append(@, project),
                             !.stores[s].projects = push(@, ref)]
    IN  Leave(updateListeners(pushed, s))
addProject_unshift(st, s, title, description, numOfPeople, rnd) ==
    LET entered == Enter(st, "addProject", <<title, description, numOfPeople>>)
        project == Project(rnd, title, description, numOfPeople, "Active")
        ref == Len(st.heap) + 1
        pushed == [entered EXCEPT !.heap = Append(@, project),
                             !.stores[s].projects = <<ref>> \o @]
    IN  Leave(updateListeners(pushed, s))
addProject(st, s, title, description, numOfPeople, rnd) ==
    LET entered == Enter(st, "addProject", <<title, description, numOfPeople>>)
        project == Project(rnd, title, description, numOfPeople, "Active")
        ref == Len(st.heap) + 1
        pushed == [entered EXCEPT !.heap = Append(@, project),
                             !.stores[s].projects = push(@, ref)]
    IN  Leave(updateListeners(pushed, s))

\* ProjectState.moveProject.  Reading .status of this.projects[-1]
\* (undefined) would throw a TypeError; the first guard returns before it.
\* Faulty variants: a project is never moved to Active; the moved project
\* is taken out and put at the end; the
\* first guard missing; the second guard missing; the status written to the
\* later Project objects as well.
moveProject_oneWay(st, s, projectId, newStatus) ==
    LET entered == Enter(st, "moveProject", <<projectId, newStatus>>)
        projects == st.stores[s].projects
        projectIndex == findIndex(st, projects, projectId)
    IN  IF projectIndex = -1 \/ newStatus = "Active" THEN Leave(entered)
        ELSE IF st.heap[projects[projectIndex + 1]].status = newStatus THEN Leave(entered)
        ELSE Leave(updateListeners(
                 [entered EXCEPT !.heap[projects[projectIndex + 1]].status = newStatus], s))
moveProject_toEnd(st, s, projectId, newStatus) ==
    LET entered == Enter(st, "moveProject", <<projectId, newStatus>>)
        projects == st.stores[s].projects
        projectIndex == findIndex(st, projects, projectId)
    IN  IF projectIndex = -1 THEN Leave(entered)
        ELSE IF st.heap[projects[projectIndex + 1]].status = newStatus THEN Leave(entered)
        ELSE Leave(updateListeners(
                 [entered EXCEPT
                     !.heap[projects[projectIndex + 1]].status = newStatus,
                     !.stores[s].projects =
                         SubSeq(projects, 1, projectIndex)
                         \o SubSeq(projects, projectIndex + 2, Len(projects))
                         \o <<projects[projectIndex + 1]>>], s))
moveProject_noFoundCheck(st, s, projectId, newStatus) ==
    LET entered == Enter(st, "moveProject", <<projectId, newStatus>>)
        projects == st.stores[s].projects
        projectIndex == findIndex(st, projects, projectId)
    IN  IF projectIndex = -1 THEN Leave([entered EXCEPT !.error = "TypeError"])
        ELSE IF st.heap[projects[projectIndex + 1]].status = newStatus THEN Leave(entered)
        ELSE Leave(updateListeners(
                 [entered EXCEPT !.heap[projects[projectIndex + 1]].status = newStatus], s))
moveProject_noSameCheck(st, s, projectId, newStatus) ==
    LET entered == Enter(st, "moveProject", <<projectId, newStatus>>)
        projects == st.stores[s].projects
        projectIndex == findIndex(st, projects, projectId)
    IN  IF projectIndex = -1 THEN Leave(entered)
        ELSE Leave(updateListeners(
                 [entered EXCEPT !.heap[projects[projectIndex + 1]].status = newStatus], s))
moveProject_andLater(st, s, projectId, newStatus) ==
    LET entered == Enter(st, "moveProject", <<projectId, newStatus>>)
        projects == st.stores[s].projects
        projectIndex == findIndex(st, projects, projectId)
    IN  IF projectIndex = -1 THEN Leave(entered)
        ELSE IF st.heap[projects[projectIndex + 1]].status = newStatus THEN Leave(entered)
        ELSE Leave(updateListeners(
                 [entered EXCEPT !.heap = [o \in DOMAIN @ |->
                     IF o >= projects[projectIndex + 1]
                     THEN [@[o] EXCEPT !.status = newStatus] ELSE @[o]]], s))
moveProject(st, s, projectId, newStatus) ==
    LET entered == Enter(st, "moveProject", <<projectId, newStatus>>)
        projects == st.stores[s].projects
        projectIndex == findIndex(st, projects, projectId)
    IN  IF projectIndex = -1 THEN Leave(entered)
        ELSE IF st.heap[projects[projectIndex + 1]].status = newStatus THEN Leave(entered)
        ELSE Leave(updateListeners(
                 [entered EXCEPT !.heap[projects[projectIndex + 1]].status = newStatus], s))

\* ------------------------------------- the stores without moveProject
\* src/src/main.ts (State<T> and ProjectState) and the non-generic
\* ProjectState of part_002: the same fields and addListener, no
\* updateListeners and no moveProject; addProject ends with its own
\*   this.listeners.forEach((listenerFunc) => { listenerFunc([...this.projects]); })
\* Faulty variants of their addProject: the listeners called back to front;
\* the listeners handed the projects stored before the push.
Programs == {"main.ts", "part_002"}

addListener_main(st, s, c) == [st EXCEPT !.stores[s].listeners = push(@, c)]
addListener_part_002(st, s, c) == [st EXCEPT !.stores[s].listeners = push(@, c)]

addProject_backToFront(st, s, title, description, numOfPeople, rnd) ==
    LET entered == Enter(st, "addProject", <<title, description, numOfPeople>>)
        project == Project(rnd, title, description, numOfPeople, "Active")
        ref == Len(st.heap) + 1
        pushed == [entered EXCEPT !.heap = Append(@, project),
                             !.stores[s].projects = push(@, ref)]
    IN  Leave(forEach(pushed, s, Reverse(pushed.stores[s].listeners), 1))
addProject_pushLast(st, s, title, description, numOfPeople, rnd) ==
    LET entered == Enter(st, "addProject", <<title, description, numOfPeople>>)
        project == Project(rnd, title, description, numOfPeople, "Active")
        ref == Len(st.heap) + 1
        notified == forEach(entered, s, entered.stores[s].listeners, 1)
    IN  Leave([notified EXCEPT !.heap = Append(@, project),
                               !.stores[s].projects = push(@, ref)])
addProject_main(st, s, title, description, numOfPeople, rnd) ==
    LET entered == Enter(st, "addProject", <<title, description, numOfPeople>>)
        project == Project(rnd, title, description, numOfPeople, "Active")
        ref == Len(st.heap) + 1
        pushed == [entered EXCEPT !.heap = Append(@, project),
                             !.stores[s].projects = push(@, ref)]
    IN  Leave(forEach(pushed, s, pushed.stores[s].listeners, 1))
addProject_part_002(st, s, title, description, numOfPeople, rnd) ==
    LET entered == Enter(st, "addProject", <<title, description, numOfPeople>>)
        project == Project(rnd, title, description, numOfPeople, "Active")
        ref == Len(st.heap) + 1
        pushed == [entered EXCEPT !.heap = Append(@, project),
                             !.stores[s].projects = push(@, ref)]
    IN  Leave(forEach(pushed, s, pushed.stores[s].listeners, 1))

\* ------------------------------------------------------------ strings
\* A string is the sequence of its characters.
Whitespace == {" "}
Digits == <<"0", "1", "2", "3", "4", "5", "6", "7", "8", "9">>

\* String.prototype.trim
RECURSIVE trimStart(_)
trimStart(chars) ==
    IF chars # <<>> /\ Head(chars) \in Whitespace
    THEN trimStart(Tail(chars)) ELSE chars
RECURSIVE trimEnd(_)
trimEnd(chars) ==
    IF chars # <<>> /\ chars[Len(chars)] \in Whitespace
    THEN trimEnd(SubSeq(chars, 1, Len(chars) - 1)) ELSE chars
trim(chars) == trimEnd(trimStart(chars))

\* The values of type string | number: a number is an integer or NaN.
Str(chars) == [type |-> "string", chars |-> chars]
Num(n) == [type |-> "number", nan |-> FALSE, n |-> n]
NaN == [type |-> "number", nan |-> TRUE, n |-> 0]

\* Number.isNaN
isNaN(value) == value.type = "number" /\ value.nan

\* value.toString()
RECURSIVE digitsOf(_)
digitsOf(n) ==
    IF n < 10 THEN <<Digits[n + 1]>>
    ELSE Append(digitsOf(n \div 10), Digits[(n % 10) + 1])
toString(value) ==
    IF value.type = "string" THEN value.chars
    ELSE IF value.nan THEN <<"N", "a", "N">>
    ELSE IF value.n < 0 THEN <<"-">> \o digitsOf(-value.n)
    ELSE digitsOf(value.n)

\* parseInt(string, radix) for a radix up to 10: leading white space is
\* skipped, a sign is read, then the longest run of digits; with no digit
\* there the result is NaN, and whatever follows the digits is ignored.
DigitsBelow(radix) == {Digits[d] : d \in 1..radix}
DigitValue(ch) == (CHOOSE d \in DOMAIN Digits : Digits[d] = ch) - 1
RECURSIVE digitPrefix(_, _)
digitPrefix(chars, radix) ==
    IF chars # <<>> /\ Head(chars) \in DigitsBelow(radix)
    THEN <<Head(chars)>> \o digitPrefix(Tail(chars), radix) ELSE <<>>
RECURSIVE numberOf(_, _)
numberOf(digits, radix) ==
    IF digits = <<>> THEN 0
    ELSE radix * numberOf(SubSeq(digits, 1, Len(digits) - 1), radix)
         + DigitValue(digits[Len(digits)])
parseInt(string, radix) ==
    LET rest == trimStart(string)
        signed == rest # <<>> /\ Head(rest) \in {"+", "-"}
        digits == digitPrefix(IF signed THEN Tail(rest) ELSE rest, radix)
    IN  IF digits = <<>> THEN NaN
        ELSE IF signed /\ Head(rest) = "-" THEN Num(-numberOf(digits, radix))
        ELSE Num(numberOf(digits, radix))

\* ---------------------------------------------------------- validation
\* validate(validatableInput): a Validatable is a record with a value and
\* any of required, minLength, maxLength, min, max.  The lengths bind
\* strings only, the range binds numbers only, and no comparison with NaN
\* is true.
Has(validatableInput, field) == field \in DOMAIN validatableInput
\* Faulty variants: required alone is looked at; the range is not looked at.
validate_requiredOnly(validatableInput) ==
    ~ /\ Has(validatableInput, "required")
      /\ validatableInput.required
      /\ \/ isNaN(validatableInput.value)
         \/ trim(toString(validatableInput.value)) = <<>>
validate_noRange(validatableInput) ==
    LET value == validatableInput.value
    IN  IF /\ Has(validatableInput, "required")
           /\ validatableInput.required
           /\ (isNaN(value) \/ trim(toString(value)) = <<>>)
        THEN FALSE
        ELSE IF /\ Has(validatableInput, "minLength")
                /\ value.type = "string"
                /\ Len(value.chars) < validatableInput.minLength
        THEN FALSE
        ELSE IF /\ Has(validatableInput, "maxLength")
                /\ value.type = "string"
                /\ Len(value.chars) > validatableInput.maxLength
        THEN FALSE
        ELSE TRUE
validate(validatableInput) ==
    LET value == validatableInput.value
    IN  IF /\ Has(validatableInput, "required")
           /\ validatableInput.required
           /\ (isNaN(value) \/ trim(toString(value)) = <<>>)
        THEN FALSE
        ELSE IF /\ Has(validatableInput, "minLength")
                /\ value.type = "string"
                /\ Len(value.chars) < validatableInput.minLength
        THEN FALSE
        ELSE IF /\ Has(validatableInput, "maxLength")
                /\ value.type = "string"
                /\ Len(value.chars) > validatableInput.maxLength
        THEN FALSE
        ELSE IF /\ Has(validatableInput, "min")
                /\ value.type = "number"
                /\ ~value.nan
                /\ value.n < validatableInput.min
        THEN FALSE
        ELSE IF /\ Has(validatableInput, "max")
                /\ value.type = "number"
                /\ ~value.nan
                /\ value.n > validatableInput.max
        THEN FALSE
        ELSE TRUE

\* The validate of main.ts, before it moved to utils/validation.ts.
validate_main(validatableInput) ==
    LET value == validatableInput.value
    IN  IF /\ Has(validatableInput, "required")
           /\ validatableInput.required
           /\ (isNaN(value) \/ trim(toString(value)) = <<>>)
        THEN FALSE
        ELSE IF /\ Has(validatableInput, "minLength")
                /\ value.type = "string"
                /\ Len(value.chars) < validatableInput.minLength
        THEN FALSE
        ELSE IF /\ Has(validatableInput, "maxLength")
                /\ value.type = "string"
                /\ Len(value.chars) > validatableInput.maxLength
        THEN FALSE
        ELSE IF /\ Has(validatableInput, "min")
                /\ value.type = "number"
                /\ ~value.nan
                /\ value.n < validatableInput.min
        THEN FALSE
        ELSE IF /\ Has(validatableInput, "max")
                /\ value.type = "number"
                /\ ~value.nan
                /\ value.n > validatableInput.max
        THEN FALSE
        ELSE TRUE

\* The objects of type Validatable: a value (a string of blanks and
\* letters, an integer or NaN) and any of the optional members; an optional
\* member is given as the set of its values, empty when it is left out.
Values ==
    {Str(chars) : chars \in UNION {[1..n -> {" ", "a"}] : n \in 0..MaxLength}}
    \cup {Num(n) : n \in -1..MaxNumber + 1} \cup {NaN}
Optional(S) == {{}} \cup {{x} : x \in S}
Member(name, given) ==
    IF given = {} THEN <<>> ELSE name :> (CHOOSE x \in given : TRUE)
Validatable(value, required, minLength, maxLength, min, max) ==
    ("value" :> value) @@ Member("required", required)
    @@ Member("minLength", minLength) @@ Member("maxLength", maxLength)
    @@ Member("min", min) @@ Member("max", max)
Validatables ==
    {Validatable(value, required, minLength, maxLength, min, max) :
        value \in Values, required \in Optional(BOOLEAN),
        minLength \in Optional(0..MaxLength), maxLength \in Optional(0..MaxLength),
        min \in Optional(0..MaxNumber), max \in Optional(0..MaxNumber)}

\* -------------------------------------------------------- ProjectInput
\* The three input elements with the given values.
Fields(title, description, people) ==
    [title |-> title, description |-> description, people |-> people]

\* ProjectInput.gatherUserInput: the tuple [title, description, people], or
\* nothing after alert('Invalid input, please try again!').
\* Faulty variant: the people field is not validated.
gatherUserInput_peopleUnchecked(fields) ==
    LET enteredTitle == fields.title
        enteredDescription == fields.description
        enteredPeople == fields.people
        titleValidatable == [value |-> Str(enteredTitle), required |-> TRUE]
        descriptionValidatable ==
            [value |-> Str(enteredDescription), required |-> TRUE, minLength |-> 5]
    IN  IF ~validate(titleValidatable) \/ ~validate(descriptionValidatable)
        THEN [isArray |-> FALSE, alert |-> TRUE]
        ELSE [isArray |-> TRUE, alert |-> FALSE,
              tuple |-> <<enteredTitle, enteredDescription,
                          parseInt(enteredPeople, 10)>>]
gatherUserInput(fields) ==
    LET enteredTitle == fields.title
        enteredDescription == fields.description
        enteredPeople == fields.people
        titleValidatable == [value |-> Str(enteredTitle), required |-> TRUE]
        descriptionValidatable ==
            [value |-> Str(enteredDescription), required |-> TRUE, minLength |-> 5]
        peopleValidatable ==
            [value |-> parseInt(enteredPeople, 10), required |-> TRUE,
             min |-> 1, max |-> 5]
    IN  IF \/ ~validate(titleValidatable)
           \/ ~validate(descriptionValidatable)
           \/ ~validate(peopleValidatable)
        THEN [isArray |-> FALSE, alert |-> TRUE]
        ELSE [isArray |-> TRUE, alert |-> FALSE,
              tuple |-> <<enteredTitle, enteredDescription,
                          parseInt(enteredPeople, 10)>>]

\* ProjectInput.clearInputs
clearInputs == Fields(<<>>, <<>>, <<>>)

\* ------------------------------------------------------------- actions
\* The program state an event handler starts from, with empty call records
\* and no store operation in progress; act is what the outside callbacks do
\* when this operation calls them.
Now(act) == [stores |-> stores, heap |-> heap, closures |-> closures,
             round |-> <<>>, error |-> "none", act |-> act,
             depth |-> 0, api |-> <<>>, rnds |-> <<>>]
\* ... with the values Math.random().toString() yields in the calls that
\* callbacks make.
NowWith(act, rnds) == [Now(act) EXCEPT !.rnds = rnds]

Commit(st) ==
    /\ stores' = st.stores
    /\ heap' = st.heap
    /\ closures' = st.closures
    /\ round' = st.round

\* static ProjectState.getInstance().
\* Faulty variant: a new ProjectState at every call (cut off at two).
getInstance_alwaysNew ==
    /\ Len(stores) <= 1
    /\ stores' = Append(stores, NewProjectState)
    /\ instance' = Len(stores) + 1
    /\ refs' = refs \cup {instance'}
    /\ last' = [op |-> "getInstance", result |-> instance']
    /\ round' = <<>>
    /\ UNCHANGED <<program, heap, closures, ui>>
getInstance ==
    /\ IF instance = 0
       THEN /\ stores' = Append(stores, NewProjectState)
            /\ instance' = Len(stores) + 1
       ELSE UNCHANGED <<stores, instance>>
    /\ refs' = refs \cup {instance'}
    /\ last' = [op |-> "getInstance", result |-> instance']
    /\ round' = <<>>
    /\ UNCHANGED <<program, heap, closures, ui>>

\* projectState.addListener(cb) with a new callback of the given kind; for
\* a list type this is the registration made by new ProjectList(type).
AddListener(r, kind) ==
    /\ Len(closures) < MaxListeners
    /\ LET c == Len(closures) + 1
           made == [Now("none") EXCEPT !.closures =
                       Append(@, [kind |-> kind, assignedProjects |-> <<>>])]
       IN  Commit(addListener(made, r, c))
    /\ last' = [op |-> "addListener", r |-> r, listener |-> Len(closures) + 1]
    /\ UNCHANGED <<program, instance, refs, ui>>

AddProject(r, title, description, numOfPeople, rnd, act) ==
    /\ Len(heap) < MaxProjects
    /\ LET st == addProject(Now(act), r, title, description, numOfPeople, rnd)
       IN  /\ Commit(st)
           /\ last' = [op |-> "addProject", r |-> r, title |-> title,
                       description |-> description, people |-> numOfPeople,
                       rnd |-> rnd, error |-> st.error]
    /\ UNCHANGED <<program, instance, refs, ui>>

MoveProject(r, projectId, newStatus, act) ==
    /\ LET st == moveProject(Now(act), r, projectId, newStatus)
       IN  /\ Commit(st)
           /\ last' = [op |-> "moveProject", r |-> r, id |-> projectId,
                       status |-> newStatus, error |-> st.error,
                       moved |-> st.heap # heap,
                       again |-> /\ last.op = "moveProject"
                                 /\ last.moved
                                 /\ <<last.r, last.id, last.status>> =
                                       <<r, projectId, newStatus>>,
                       back |-> /\ last.op = "moveProject"
                                /\ last.moved
                                /\ <<last.r, last.id>> = <<r, projectId>>
                                /\ last.status # newStatus,
                       before |-> [heap |-> heap, projects |-> stores[r].projects]]
    /\ UNCHANGED <<program, instance, refs, ui>>

\* addProject and moveProject called on a store whose outside callbacks call
\* the store in turn; rnds are the values of Math.random().toString() in
\* call order.  The number of projects is kept within the bound.
AddProjectNesting(r, title, description, numOfPeople, rnds, act) ==
    /\ Len(heap) < MaxProjects
    /\ LET st == addProject(NowWith(act, Tail(rnds)), r, title, description,
                            numOfPeople, Head(rnds))
       IN  /\ Commit(st)
           /\ last' = [op |-> "addProject", r |-> r, title |-> title,
                       description |-> description, people |-> numOfPeople,
                       rnd |-> Head(rnds), act |-> act, error |-> st.error,
                       api |-> st.api]
    /\ UNCHANGED <<program, instance, refs, ui>>

MoveProjectNesting(r, projectId, newStatus, rnds, act) ==
    /\ Len(heap) < MaxProjects
    /\ LET st == moveProject(NowWith(act, rnds), r, projectId, newStatus)
       IN  /\ Commit(st)
           /\ last' = [op |-> "moveProject", r |-> r, id |-> projectId,
                       status |-> newStatus, act |-> act, error |-> st.error,
                       api |-> st.api]
    /\ UNCHANGED <<program, instance, refs, ui>>

\* The store with callbacks that count their calls.  Beside each callback's
\* own count (calls) the number of calls of addProject and of moveProject
\* that changed the store since it was registered is kept (due), and the
\* number of projects stored when it was registered (at).  A callback is
\* followed for MaxCalls mutations.
Tally(st) ==
    [st EXCEPT !.closures = [c \in DOMAIN @ |-> [@[c] EXCEPT !.due = @ + 1]]]

AddCountingListener(r) ==
    /\ Len(closures) < MaxListeners
    /\ LET c == Len(closures) + 1
           made == [Now(Counting) EXCEPT !.closures =
                       Append(@, [kind |-> "external", assignedProjects |-> <<>>,
                                  calls |-> 0, due |-> 0,
                                  at |-> Len(stores[r].projects)])]
       IN  Commit(addListener(made, r, c))
    /\ last' = [op |-> "addListener", r |-> r, listener |-> Len(closures) + 1]
    /\ UNCHANGED <<program, instance, refs, ui>>

AddProjectCounted(r, title, description, numOfPeople, rnd) ==
    /\ Len(heap) < MaxProjects
    /\ \A c \in DOMAIN closures : closures[c].due < MaxCalls
    /\ LET st == addProject(Now(Counting), r, title, description, numOfPeople, rnd)
       IN  /\ Commit(Tally(st))
           /\ last' = [op |-> "addProject", r |-> r, rnd |-> rnd, error |-> st.error]
    /\ UNCHANGED <<program, instance, refs, ui>>

MoveProjectCounted(r, projectId, newStatus) ==
    /\ \A c \in DOMAIN closures : closures[c].due < MaxCalls
    /\ LET st == moveProject(Now(Counting), r, projectId, newStatus)
       IN  /\ Commit(IF st.heap # heap THEN Tally(st) ELSE st)
           /\ last' = [op |-> "moveProject", r |-> r, id |-> projectId,
                       status |-> newStatus, error |-> st.error,
                       moved |-> st.heap # heap]
    /\ UNCHANGED <<program, instance, refs, ui>>

\* No drag is in progress.
NoDrag == [dragging |-> FALSE, text |-> "", item |-> 0]

\* The submit event of the form, fired when its fields hold `entered`:
\* ProjectInput.submitHandler calls addProject with the gathered tuple and
\* clears the fields, or does neither when nothing was gathered.
\* Faulty variant: the fields are cleared whatever was gathered.
submitHandler_alwaysClear(entered, rnd) ==
    /\ LET userInput == gatherUserInput(entered)
           st == IF userInput.isArray
                 THEN addProject(Now("none"), instance, userInput.tuple[1],
                                 userInput.tuple[2], userInput.tuple[3], rnd)
                 ELSE Now("none")
       IN  /\ userInput.isArray => Len(heap) < MaxProjects
           /\ Commit(st)
           /\ projectInput' = clearInputs
           /\ last' = [op |-> "submit", entered |-> entered,
                       rnd |-> IF userInput.isArray THEN rnd ELSE "",
                       alert |-> userInput.alert, api |-> st.api,
                       error |-> st.error]
    /\ UNCHANGED <<program, instance, refs, dataTransfer>>
submitHandler(entered, rnd) ==
    /\ LET userInput == gatherUserInput(entered)
           st == IF userInput.isArray
                 THEN addProject(Now("none"), instance, userInput.tuple[1],
                                 userInput.tuple[2], userInput.tuple[3], rnd)
                 ELSE Now("none")
       IN  /\ userInput.isArray => Len(heap) < MaxProjects
           /\ Commit(st)
           /\ projectInput' = IF userInput.isArray THEN clearInputs ELSE entered
           /\ last' = [op |-> "submit", entered |-> entered,
                       rnd |-> IF userInput.isArray THEN rnd ELSE "",
                       alert |-> userInput.alert, api |-> st.api,
                       error |-> st.error]
    /\ UNCHANGED <<program, instance, refs, dataTransfer>>

\* The dragstart event of the ProjectItem that list c rendered for Project
\* object o: ProjectItem.dragStartHandler puts the project's id into the
\* drag's data store as text/plain.
dragStartHandler(c, o) ==
    /\ \E i \in DOMAIN closures[c].assignedProjects :
          closures[c].assignedProjects[i] = o
    /\ dataTransfer' = [dragging |-> TRUE, text |-> heap[o].id, item |-> o]
    /\ round' = <<>>
    /\ last' = [op |-> "dragStart", list |-> c, item |-> o]
    /\ UNCHANGED <<program, instance, stores, heap, closures, refs, projectInput>>

\* A drag that starts outside the board and carries text/plain.
DragStartElsewhere(text) ==
    /\ dataTransfer' = [dragging |-> TRUE, text |-> text, item |-> 0]
    /\ round' = <<>>
    /\ last' = [op |-> "dragStart", list |-> 0, item |-> 0]
    /\ UNCHANGED <<program, instance, stores, heap, closures, refs, projectInput>>

\* The drop event on list c: ProjectList.dropHandler calls moveProject with
\* the text of the drag's data store and the status of the list's type.
\* The drop ends the drag.
dropHandler(c) ==
    /\ dataTransfer.dragging
    /\ closures[c].kind \in ListTypes
    /\ LET projectId == dataTransfer.text
           newStatus == IF closures[c].kind = "active" THEN "Active" ELSE "Finished"
           st == moveProject(Now("none"), instance, projectId, newStatus)
       IN  /\ Commit(st)
           /\ last' = [op |-> "drop", list |-> c, item |-> dataTransfer.item,
                       id |-> projectId, status |-> newStatus,
                       moved |-> st.heap # heap, api |-> st.api,
                       error |-> st.error]
    /\ dataTransfer' = NoDrag
    /\ UNCHANGED <<program, instance, refs, projectInput>>

Init ==
    /\ program = "part_003"
    /\ instance = 0
    /\ stores = <<>>
    /\ heap = <<>>
    /\ closures = <<>>
    /\ refs = {}
    /\ round = <<>>
    /\ projectInput = clearInputs
    /\ dataTransfer = NoDrag
    /\ last = [op |-> "init"]

\* The board as the repository builds it: the only listeners are ProjectLists.
Next ==
    \/ getInstance
    \/ \E r \in refs, type \in ListTypes : AddListener(r, type)
    \/ \E r \in refs, inp \in Inputs, rnd \in RandomIds :
          AddProject(r, inp[1], inp[2], inp[3], rnd, "none")
    \/ \E r \in refs, projectId \in ProjectIds, newStatus \in ProjectStatus :
          MoveProject(r, projectId, newStatus, "none")

Spec == Init /\ [][Next]_vars

\* The store with an active ProjectList and callbacks from outside the
\* repository, which write to the array they are handed.
NextArr ==
    \/ getInstance
    \/ \E r \in refs, kind \in {"active", "external"} : AddListener(r, kind)
    \/ \E r \in refs, inp \in Inputs, rnd \in RandomIds, act \in ArrayWrites :
          AddProject(r, inp[1], inp[2], inp[3], rnd, act)
    \/ \E r \in refs, projectId \in ProjectIds, newStatus \in ProjectStatus,
          act \in ArrayWrites :
          MoveProject(r, projectId, newStatus, act)

SpecArr == Init /\ [][NextArr]_vars

\* ... and which write to the records in that array.
NextRec ==
    \/ getInstance
    \/ \E r \in refs, kind \in {"active", "external"} : AddListener(r, kind)
    \/ \E r \in refs, inp \in Inputs, rnd \in RandomIds, act \in RecordWrites :
          AddProject(r, inp[1], inp[2], inp[3], rnd, act)
    \/ \E r \in refs, projectId \in ProjectIds, newStatus \in ProjectStatus,
          act \in RecordWrites :
          MoveProject(r, projectId, newStatus, act)

SpecRec == Init /\ [][NextRec]_vars

\* The board as main builds it: new ProjectInput(), new ProjectList('active')
\* and new ProjectList('finished') on the one store, no project yet.
InitUI ==
    /\ program = "part_003"
    /\ instance = 1
    /\ stores = <<[listeners |-> <<1, 2>>, projects |-> <<>>]>>
    /\ heap = <<>>
    /\ closures = <<[kind |-> "active", assignedProjects |-> <<>>],
                    [kind |-> "finished", assignedProjects |-> <<>>]>>
    /\ refs = {1}
    /\ round = <<>>
    /\ projectInput = clearInputs
    /\ dataTransfer = NoDrag
    /\ last = [op |-> "init"]

\* ... and the events of its user: submits and drags and drops.
NextUI ==
    \/ \E entered \in FormEntries, rnd \in RandomIds : submitHandler(entered, rnd)
    \/ \E c \in DOMAIN closures, o \in DOMAIN heap : dragStartHandler(c, o)
    \/ \E text \in ForeignTexts : DragStartElsewhere(text)
    \/ \E c \in DOMAIN closures : dropHandler(c)

SpecUI == InitUI /\ [][NextUI]_vars

\* The store with an active ProjectList and callbacks from outside the
\* repository that call the store from inside their notification.
NextNesting ==
    \/ getInstance
    \/ \E r \in refs, kind \in {"active", "external"} : AddListener(r, kind)
    \/ \E r \in refs, rnds \in [1..MaxDepth -> RandomIds], act \in StoreCalls :
          AddProjectNesting(r, "A", "desc", 3, rnds, act)
    \/ \E r \in refs, projectId \in ProjectIds, newStatus \in ProjectStatus,
          rnds \in [1..MaxDepth -> RandomIds], act \in StoreCalls :
          MoveProjectNesting(r, projectId, newStatus, rnds, act)

SpecNesting == Init /\ [][NextNesting]_vars

\* The store with callbacks from outside the repository that count.
NextCounting ==
    \/ getInstance
    \/ \E r \in refs : AddCountingListener(r)
    \/ \E r \in refs, inp \in Inputs, rnd \in RandomIds :
          AddProjectCounted(r, inp[1], inp[2], inp[3], rnd)
    \/ \E r \in refs, projectId \in ProjectIds, newStatus \in ProjectStatus :
          MoveProjectCounted(r, projectId, newStatus)

SpecCounting == Init /\ [][NextCounting]_vars

\* The store called directly with arguments the form would reject.
NextAny ==
    \/ getInstance
    \/ \E r \in refs, type \in ListTypes : AddListener(r, type)
    \/ \E r \in refs, inp \in RejectedInputs, rnd \in RandomIds :
          AddProject(r, inp[1], inp[2], inp[3], rnd, "none")
    \/ \E r \in refs, projectId \in ProjectIds, newStatus \in ProjectStatus :
          MoveProject(r, projectId, newStatus, "none")

SpecAny == Init /\ [][NextAny]_vars

\* ------------------------------------- the stores without moveProject
\* main.ts: if (!this.instance) this.instance = new ProjectState();
\*          return this.instance;
getInstance_main ==
    /\ program = "main.ts"
    /\ IF ~(instance # 0)
       THEN /\ stores' = Append(stores, NewProjectState)
            /\ instance' = Len(stores) + 1
       ELSE UNCHANGED <<stores, instance>>
    /\ refs' = refs \cup {instance'}
    /\ last' = [op |-> "getInstance", result |-> instance']
    /\ round' = <<>>
    /\ UNCHANGED <<program, heap, closures, ui>>
\* part_002: if (this.instance) return this.instance;
\*           this.instance = new ProjectState(); return this.instance;
getInstance_part_002 ==
    /\ program = "part_002"
    /\ IF instance # 0
       THEN UNCHANGED <<stores, instance>>
       ELSE /\ stores' = Append(stores, NewProjectState)
            /\ instance' = Len(stores) + 1
    /\ refs' = refs \cup {instance'}
    /\ last' = [op |-> "getInstance", result |-> instance']
    /\ round' = <<>>
    /\ UNCHANGED <<program, heap, closures, ui>>

\* projectState.addListener(cb), as new ProjectList(type) calls it.
AddListener_main(r, kind) ==
    /\ program = "main.ts"
    /\ Len(closures) < MaxListeners
    /\ LET c == Len(closures) + 1
           made == [Now("none") EXCEPT !.closures =
                       Append(@, [kind |-> kind, assignedProjects |-> <<>>])]
       IN  Commit(addListener_main(made, r, c))
    /\ last' = [op |-> "addListener", r |-> r, listener |-> Len(closures) + 1]
    /\ UNCHANGED <<program, instance, refs, ui>>
AddListener_part_002(r, kind) ==
    /\ program = "part_002"
    /\ Len(closures) < MaxListeners
    /\ LET c == Len(closures) + 1
           made == [Now("none") EXCEPT !.closures =
                       Append(@, [kind |-> kind, assignedProjects |-> <<>>])]
       IN  Commit(addListener_part_002(made, r, c))
    /\ last' = [op |-> "addListener", r |-> r, listener |-> Len(closures) + 1]
    /\ UNCHANGED <<program, instance, refs, ui>>

\* projectState.addProject(title, description, numOfPeople)
AddProject_main(r, title, description, numOfPeople, rnd) ==
    /\ program = "main.ts"
    /\ Len(heap) < MaxProjects
    /\ LET st == addProject_main(Now("none"), r, title, description, numOfPeople, rnd)
       IN  /\ Commit(st)
           /\ last' = [op |-> "addProject", r |-> r, title |-> title,
                       description |-> description, people |-> numOfPeople,
                       rnd |-> rnd, error |-> st.error]
    /\ UNCHANGED <<program, instance, refs, ui>>
AddProject_part_002(r, title, description, numOfPeople, rnd) ==
    /\ program = "part_002"
    /\ Len(heap) < MaxProjects
    /\ LET st == addProject_part_002(Now("none"), r, title, description, numOfPeople, rnd)
       IN  /\ Commit(st)
           /\ last' = [op |-> "addProject", r |-> r, title |-> title,
                       description |-> description, people |-> numOfPeople,
                       rnd |-> rnd, error |-> st.error]
    /\ UNCHANGED <<program, instance, refs, ui>>

\* Either script from its start, with the ProjectLists as its listeners.
InitVariants ==
    /\ program \in Programs
    /\ instance = 0
    /\ stores = <<>>
    /\ heap = <<>>
    /\ closures = <<>>
    /\ refs = {}
    /\ round = <<>>
    /\ projectInput = clearInputs
    /\ dataTransfer = NoDrag
    /\ last = [op |-> "init"]

NextVariants ==
    \/ getInstance_main
    \/ getInstance_part_002
    \/ \E r \in refs, type \in ListTypes : AddListener_main(r, type)
    \/ \E r \in refs, type \in ListTypes : AddListener_part_002(r, type)
    \/ \E r \in refs, inp \in Inputs, rnd \in RandomIds :
          AddProject_main(r, inp[1], inp[2], inp[3], rnd)
    \/ \E r \in refs, inp \in Inputs, rnd \in RandomIds :
          AddProject_part_002(r, inp[1], inp[2], inp[3], rnd)

SpecVariants == InitVariants /\ [][NextVariants]_vars

\* ------------------------------------------------------------ validate
\* validate called with any Validatable, as exported by utils/validation.ts
\* and as main.ts defines it.
Validate ==
    /\ last.op = "input"
    /\ last' = [op |-> "validate", validatableInput |-> last.validatableInput,
                result |-> validate(last.validatableInput)]
    /\ UNCHANGED <<program, instance, stores, heap, closures, refs, round, ui>>
Validate_main ==
    /\ last.op = "input"
    /\ last' = [op |-> "validate_main", validatableInput |-> last.validatableInput,
                result |-> validate_main(last.validatableInput)]
    /\ UNCHANGED <<program, instance, stores, heap, closures, refs, round, ui>>

InitValidate ==
    /\ program = "part_003"
    /\ instance = 0
    /\ stores = <<>>
    /\ heap = <<>>
    /\ closures = <<>>
    /\ refs = {}
    /\ round = <<>>
    /\ projectInput = clearInputs
    /\ dataTransfer = NoDrag
    /\ \E validatableInput \in Validatables :
          last = [op |-> "input", validatableInput |-> validatableInput]

NextValidate == Validate \/ Validate_main

SpecValidate == InitValidate /\ [][NextValidate]_vars

\* ============================================================== claims
\* The references stored by store r before and after a step.
Stored(r) == stores[r].projects
StoredAfter(r) == stores'[r].projects

\* The positions of the stored entries that carry an id, and the entry an
\* id denotes: the first of them (the only one while ids are distinct).
Carrying(r, id) == {i \in DOMAIN Stored(r) : heap[Stored(r)[i]].id = id}
Denoted(r, id) == CHOOSE i \in Carrying(r, id) : \A j \in Carrying(r, id) : i <= j

\* The records a sequence of references stands for after a step.
RecordsAfter(arr) == [i \in DOMAIN arr |-> heap'[arr[i]]]

\* How often callback c was called by the operation of this step.
CallsAfter(c) == Cardinality({i \in DOMAIN round' : round'[i].listener = c})
Registered(r) == {stores[r].listeners[i] : i \in DOMAIN stores[r].listeners}

\* The step notified every callback registered on r once, each with the
\* full sequence r stores after the step.
NotifiedOnce(r) ==
    /\ Len(round') = Len(stores[r].listeners)
    /\ \A c \in Registered(r) : CallsAfter(c) = 1
    /\ \A i \in DOMAIN round' :
          /\ round'[i].listener \in Registered(r)
          /\ round'[i].refs = StoredAfter(r)
          /\ round'[i].items = RecordsAfter(StoredAfter(r))

\* C1: addProject makes the stored sequence exactly one longer; the new
\* entry is last, carries the given title, description and people and has
\* status Active; every entry stored before keeps its position and fields.
C1_AddProjectAppends ==
    [][last'.op = "addProject" =>
         LET old == Stored(last'.r)
             new == StoredAfter(last'.r)
         IN  /\ Len(new) = Len(old) + 1
             /\ \A i \in DOMAIN old : new[i] = old[i] /\ heap'[new[i]] = heap[old[i]]
             /\ \A i \in DOMAIN old : new[Len(new)] # old[i]
             /\ heap'[new[Len(new)]].title = last'.title
             /\ heap'[new[Len(new)]].description = last'.description
             /\ heap'[new[Len(new)]].people = last'.people
             /\ heap'[new[Len(new)]].status = "Active"]_vars

\* An addProject has just added a second project behind a finished one.
C1_Witness ==
    /\ last.op = "addProject"
    /\ Len(stores[last.r].projects) = 2
    /\ heap[stores[last.r].projects[1]].status = "Finished"
    /\ heap[stores[last.r].projects[2]].title = last.title

\* C2: one addProject calls every callback registered at the time of the
\* call exactly once, each with the full stored sequence whose last element
\* is the new entry.
C2_AddProjectNotifiesEachOnce ==
    [][last'.op = "addProject" =>
         /\ NotifiedOnce(last'.r)
         /\ \A i \in DOMAIN round' :
               LET got == round'[i].items
               IN  /\ Len(got) = Len(Stored(last'.r)) + 1
                   /\ got[Len(got)].title = last'.title
                   /\ got[Len(got)].description = last'.description
                   /\ got[Len(got)].people = last'.people
                   /\ got[Len(got)].status = "Active"
                   /\ round'[i].refs[Len(got)] = Len(heap) + 1]_vars

\* An addProject of a second project has just called two registered callbacks.
C2_Witness ==
    /\ last.op = "addProject"
    /\ Len(stores[last.r].listeners) = 2
    /\ Len(round) = 2
    /\ Len(round[1].items) = 2

\* C3: moveProject(id, newStatus), where the entry with that id has another
\* status, changes that entry's status to newStatus and nothing else: the
\* other entries, the other fields and the order stay, and every registered
\* callback is notified exactly once with the updated full sequence.
C3_MoveChangesOnlyThatStatus ==
    [][(/\ last'.op = "moveProject"
        /\ Carrying(last'.r, last'.id) # {}
        /\ heap[Stored(last'.r)[Denoted(last'.r, last'.id)]].status # last'.status) =>
         LET r == last'.r
             moved == Stored(r)[Denoted(r, last'.id)]
         IN  /\ StoredAfter(r) = Stored(r)
             /\ heap' = [heap EXCEPT ![moved].status = last'.status]
             /\ stores' = stores
             /\ NotifiedOnce(r)]_vars

\* A moveProject has just finished the second of two projects, the first
\* staying active, and has called two callbacks.
C3_Witness ==
    /\ last.op = "moveProject"
    /\ Len(round) = 2
    /\ Len(stores[last.r].projects) = 2
    /\ heap[stores[last.r].projects[1]].status = "Active"
    /\ heap[stores[last.r].projects[2]].status = "Finished"
    /\ heap[stores[last.r].projects[2]].id = last.id
    /\ last.status = "Finished"

\* C4: moveProject with an id no stored project has is a silent no-op: the
\* store and every entry are unchanged, no callback is called, no error is
\* raised.
C4_MoveUnknownIdIsNoOp ==
    [][(last'.op = "moveProject" /\ Carrying(last'.r, last'.id) = {}) =>
         /\ stores' = stores
         /\ heap' = heap
         /\ closures' = closures
         /\ round' = <<>>
         /\ last'.error = "none"]_vars

\* A moveProject has just been called with an id that none of the stored
\* projects has, on a store with a project and a callback.
C4_Witness ==
    /\ last.op = "moveProject"
    /\ stores[last.r].projects # <<>>
    /\ stores[last.r].listeners # <<>>
    /\ \A i \in DOMAIN stores[last.r].projects :
          heap[stores[last.r].projects[i]].id # last.id

\* C5: moveProject(id, status), where the entry with that id already has
\* that status, leaves the store unchanged and calls no callback; so the
\* same call repeated right after a moveProject that changed the status
\* changes nothing and notifies nobody.
C5_MoveSameStatusIsNoOp ==
    [][/\ (/\ last'.op = "moveProject"
           /\ Carrying(last'.r, last'.id) # {}
           /\ heap[Stored(last'.r)[Denoted(last'.r, last'.id)]].status = last'.status) =>
              (stores' = stores /\ heap' = heap /\ closures' = closures /\ round' = <<>>)
       /\ (/\ last.op = "moveProject" /\ last.moved /\ last'.op = "moveProject"
           /\ last'.r = last.r /\ last'.id = last.id /\ last'.status = last.status) =>
              (stores' = stores /\ heap' = heap /\ closures' = closures /\ round' = <<>>)
      ]_vars

\* A moveProject to Finished has just repeated the call before it, which
\* had finished the project, on a store with a callback: the project is
\* finished and nobody was called.
C5_Witness ==
    /\ last.op = "moveProject"
    /\ last.status = "Finished"
    /\ last.again
    /\ ~last.moved
    /\ stores[last.r].listeners # <<>>
    /\ round = <<>>
    /\ \E i \in DOMAIN stores[last.r].projects :
          /\ heap[stores[last.r].projects[i]].id = last.id
          /\ heap[stores[last.r].projects[i]].status = "Finished"
          /\ \A j \in 1..(i - 1) : heap[stores[last.r].projects[j]].id # last.id

\* C6: in every reachable state the ids of the stored projects are
\* pairwise distinct.
C6_IdsPairwiseDistinct ==
    \A r \in DOMAIN stores :
        \A i, j \in DOMAIN stores[r].projects :
            i # j => heap[stores[r].projects[i]].id # heap[stores[r].projects[j]].id

\* C7: a callback never gets the store's live list: whatever the callbacks
\* of an operation append to, remove from or reorder in the array they are
\* handed, the store holds what the operation alone stores, and every
\* callback of the round is handed exactly that sequence.
C7_CallbacksGetFreshCopies ==
    [][last'.op \in {"addProject", "moveProject"} =>
         LET r == last'.r
         IN  /\ StoredAfter(r) =
                   IF last'.op = "addProject"
                   THEN Append(Stored(r), Len(heap) + 1) ELSE Stored(r)
             /\ \A i \in DOMAIN round' : round'[i].refs = StoredAfter(r)]_vars

\* An addProject has just called an outside callback that removed the last
\* element of its array, and then a second callback.
C7_Witness ==
    /\ last.op = "addProject"
    /\ Len(round) = 2
    /\ closures[round[1].listener].kind = "external"
    /\ round[1].wrote = "pop"
    /\ Len(round[2].refs) = 2

\* C8: a Project's id never changes and its status changes only through
\* moveProject; no code outside the store changes a field of a stored
\* record by writing to what a notification handed it.
C8_RecordsChangeOnlyByMove ==
    [][\A o \in DOMAIN heap :
          /\ heap'[o].id = heap[o].id
          /\ heap'[o].title = heap[o].title
          /\ heap'[o].description = heap[o].description
          /\ heap'[o].people = heap[o].people
          /\ heap'[o].status # heap[o].status =>
                /\ last'.op = "moveProject"
                /\ heap[o].id = last'.id
                /\ heap'[o].status = last'.status]_vars

\* C9: every call of getInstance returns the one store: at most one
\* ProjectState is ever constructed, every reference handed out is that
\* instance, so what is added, moved or registered through one reference
\* is what every other reference shows.
C9_Singleton ==
    /\ Len(stores) <= 1
    /\ Cardinality(refs) <= 1
    /\ \A r \in refs : r = instance
    /\ last.op = "getInstance" => last.result = instance /\ last.result \in refs
    /\ \A r1, r2 \in refs : stores[r1] = stores[r2]

\* getInstance has just been called on a store that already holds a
\* project and a callback, both put there through an earlier reference.
C9_Witness ==
    /\ last.op = "getInstance"
    /\ stores[last.result].projects # <<>>
    /\ stores[last.result].listeners # <<>>

\* C10: within one notification the callbacks are called in the order of
\* their registration (callbacks are numbered as they are registered), the
\* first registered first, after addProject and after moveProject alike.
C10_RegistrationOrder ==
    last.op \in {"addProject", "moveProject"} =>
        /\ \A i, j \in DOMAIN round :
              i < j => round[i].listener < round[j].listener
        /\ round # <<>> => round[1].listener = 1

\* A moveProject has just notified two callbacks.
C10_Witness ==
    /\ last.op = "moveProject"
    /\ Len(round) = 2
    /\ round[1].listener = 1
    /\ round[2].listener = 2

\* C11: from an empty store with one subscriber, addProject("A","desc",3)
\* shows the subscriber exactly [A, 3 people, Active]; on that store
\* addProject("B","desc2",1) shows it A then B; then moveProject(id of A,
\* Finished) shows it A Finished and B unchanged and Active, in that
\* order.  Each of the three steps calls the subscriber exactly once, which
\* makes three calls in all.
C11_Scenario ==
    [][/\ (/\ last'.op = "addProject"
           /\ <<last'.title, last'.description, last'.people>> = <<"A", "desc", 3>>
           /\ Stored(last'.r) = <<>>
           /\ Len(stores[last'.r].listeners) = 1) =>
              /\ Len(round') = 1
              /\ round'[1].listener = stores[last'.r].listeners[1]
              /\ round'[1].items =
                    <<Project(last'.rnd, "A", "desc", 3, "Active")>>
       /\ (/\ last'.op = "addProject"
           /\ <<last'.title, last'.description, last'.people>> = <<"B", "desc2", 1>>
           /\ Len(Stored(last'.r)) = 1
           /\ heap[Stored(last'.r)[1]].title = "A"
           /\ Len(stores[last'.r].listeners) = 1) =>
              /\ Len(round') = 1
              /\ round'[1].listener = stores[last'.r].listeners[1]
              /\ round'[1].items =
                    <<heap[Stored(last'.r)[1]],
                      Project(last'.rnd, "B", "desc2", 1, "Active")>>
       /\ (/\ last'.op = "moveProject"
           /\ last'.status = "Finished"
           /\ Len(Stored(last'.r)) = 2
           /\ heap[Stored(last'.r)[1]] = Project(last'.id, "A", "desc", 3, "Active")
           /\ heap[Stored(last'.r)[2]].title = "B"
           /\ heap[Stored(last'.r)[2]].status = "Active"
           /\ Len(stores[last'.r].listeners) = 1) =>
              /\ Len(round') = 1
              /\ round'[1].listener = stores[last'.r].listeners[1]
              /\ round'[1].items =
                    <<Project(last'.id, "A", "desc", 3, "Finished"),
                      heap[Stored(last'.r)[2]]>>
      ]_vars

\* The scenario has just ended: the one subscriber was shown A, finished,
\* with 3 people, and then B, active, with 1.
C11_Witness ==
    /\ last.op = "moveProject"
    /\ last.moved
    /\ Len(stores[last.r].listeners) = 1
    /\ Len(round) = 1
    /\ Len(round[1].items) = 2
    /\ round[1].items[1] = Project(last.id, "A", "desc", 3, "Finished")
    /\ round[1].items[2].title = "B"
    /\ round[1].items[2].description = "desc2"
    /\ round[1].items[2].people = 1
    /\ round[1].items[2].status = "Active"

\* C12: a registered subscriber is never removed and is called by every
\* later addProject and every later status-changing moveProject;
\* addListener itself appends the callback, calls nobody and leaves the
\* stored projects and the other callbacks as they are.
C12_ListenersStay ==
    [][/\ \A r \in DOMAIN stores :
             /\ Len(stores'[r].listeners) >= Len(stores[r].listeners)
             /\ SubSeq(stores'[r].listeners, 1, Len(stores[r].listeners)) =
                   stores[r].listeners
       /\ last'.op = "addListener" =>
             /\ round' = <<>>
             /\ heap' = heap
             /\ StoredAfter(last'.r) = Stored(last'.r)
             /\ stores'[last'.r].listeners =
                   Append(stores[last'.r].listeners, last'.listener)
             /\ \A c \in DOMAIN closures : closures'[c] = closures[c]
       /\ (last'.op = "addProject" \/ (last'.op = "moveProject" /\ last'.moved)) =>
             \A c \in Registered(last'.r) : CallsAfter(c) = 1
      ]_vars

\* A second callback has just been registered on a store whose first
\* callback had already been shown a project: nobody was called.
C12_Witness ==
    /\ last.op = "addListener"
    /\ last.listener = 2
    /\ stores[last.r].listeners = <<1, 2>>
    /\ closures[1].kind = "active"
    /\ closures[1].assignedProjects # <<>>
    /\ closures[2].assignedProjects = <<>>
    /\ round = <<>>

\* C13: addProject validates nothing: called with an empty or blank title,
\* an empty description or a people count outside 1..5, it raises no
\* error, appends one project with exactly those values and status Active
\* after the stored ones, and calls every registered callback once.
C13_AddProjectAcceptsAnything ==
    [][last'.op = "addProject" =>
          /\ last'.error = "none"
          /\ Len(StoredAfter(last'.r)) = Len(Stored(last'.r)) + 1
          /\ SubSeq(StoredAfter(last'.r), 1, Len(Stored(last'.r))) = Stored(last'.r)
          /\ heap'[StoredAfter(last'.r)[Len(StoredAfter(last'.r))]] =
                Project(last'.rnd, last'.title, last'.description,
                        last'.people, "Active")
          /\ \A c \in Registered(last'.r) : CallsAfter(c) = 1
      ]_vars

\* A project with an empty title, an empty description and no people is
\* stored as active after one with a blank title and six people, and both
\* lists were told.
C13_Witness ==
    /\ last.op = "addProject"
    /\ last.error = "none"
    /\ <<last.title, last.description, last.people>> = <<"", "", 0>>
    /\ Len(stores[last.r].projects) = 2
    /\ heap[stores[last.r].projects[1]].people = 6
    /\ heap[stores[last.r].projects[1]].title = " "
    /\ heap[stores[last.r].projects[2]] = Project(last.rnd, "", "", 0, "Active")
    /\ Len(round) = 2

\* A text of white space only (the empty text included).
Blank(chars) == \A i \in DOMAIN chars : chars[i] \in Whitespace

\* C14: in every state the board reaches by submits and drops, every stored
\* project has a title and a description that are not blank and a people
\* count that is an integer from 1 to 5; a submit has called addProject only
\* with such values, and never when parseInt of the people field is NaN.
C14_StoredProjectsAreValid ==
    /\ \A o \in DOMAIN heap :
          /\ ~Blank(heap[o].title)
          /\ ~Blank(heap[o].description)
          /\ heap[o].people \in {Num(n) : n \in 1..5}
    /\ last.op = "submit" =>
          /\ \A i \in DOMAIN last.api :
                /\ last.api[i].op = "addProject"
                /\ ~Blank(last.api[i].args[1])
                /\ ~Blank(last.api[i].args[2])
                /\ last.api[i].args[3] \in {Num(n) : n \in 1..5}
          /\ isNaN(parseInt(last.entered.people, 10)) => last.api = <<>>

\* Two submits were let through, one with 5 people and one with 1, and the
\* later one has just called addProject.
C14_Witness ==
    /\ last.op = "submit"
    /\ Len(last.api) = 1
    /\ Len(heap) = 2
    /\ {heap[o].people : o \in DOMAIN heap} = {Num(1), Num(5)}
    /\ \E o \in DOMAIN heap : heap[o].title = <<" ", "A">>
    /\ \E o \in DOMAIN heap : heap[o].description = <<"d", " ", " ", " ", " ">>

\* C15: on the board the stored sequence and the stored records change only
\* by what addProject or moveProject itself writes: a submit that changes
\* them made exactly one call of addProject, and the change is the one new
\* active project at the end; a drop that changes them made exactly one
\* call of moveProject, and the change is the status of one project with
\* the dropped id; every other event, and every call of a ProjectList
\* callback inside these, leaves the sequence, the records and the
\* listeners as they were.
C15_StoreChangesOnlyThroughItsMethods ==
    [][/\ stores'[instance].listeners = stores[instance].listeners
       /\ CASE last'.op = "submit" /\ last'.api # <<>> ->
                 /\ last'.api =
                       <<[op |-> "addProject", depth |-> 1,
                          args |-> <<last'.entered.title, last'.entered.description,
                                     parseInt(last'.entered.people, 10)>>]>>
                 /\ StoredAfter(instance) = Append(Stored(instance), Len(heap) + 1)
                 /\ heap' = Append(heap,
                       Project(last'.rnd, last'.entered.title,
                               last'.entered.description,
                               parseInt(last'.entered.people, 10), "Active"))
            [] last'.op = "drop" /\ last'.moved ->
                 /\ last'.api =
                       <<[op |-> "moveProject", depth |-> 1,
                          args |-> <<last'.id, last'.status>>]>>
                 /\ StoredAfter(instance) = Stored(instance)
                 /\ \E o \in DOMAIN heap :
                       /\ heap[o].id = last'.id
                       /\ heap' = [heap EXCEPT ![o].status = last'.status]
            [] OTHER ->
                 /\ StoredAfter(instance) = Stored(instance)
                 /\ heap' = heap
      ]_vars

\* A drop has just moved a project to the finished list while another
\* stayed active: both lists were called and show what the store holds.
C15_Witness ==
    /\ last.op = "drop"
    /\ last.moved
    /\ Len(last.api) = 1
    /\ Len(round) = 2
    /\ Len(heap) = 2
    /\ closures[1].assignedProjects # <<>>
    /\ closures[2].assignedProjects # <<>>

\* C16: on the board a mutation and its notifications are one step.  When
\* the handler of a submit or drop has returned, it made at most one call
\* of a store method and none inside another; and if that call added a
\* project or changed a status, every registered callback was called by
\* it, once, in that same call, with the stored list as it stands now: no
\* notification is left over for the next event.
C16_MutationAndNotificationAreOneStep ==
    last.op \in {"submit", "drop"} =>
        /\ Len(last.api) <= 1
        /\ \A i \in DOMAIN last.api : last.api[i].depth = 1
        /\ last.error = "none"
        /\ IF \/ last.op = "submit" /\ last.api # <<>>
              \/ last.op = "drop" /\ last.moved
           THEN \A c \in DOMAIN closures :
                   \E i \in DOMAIN round :
                      /\ round[i].listener = c
                      /\ round[i].depth = 1
                      /\ round[i].refs = stores[instance].projects
                      /\ round[i].items =
                            [k \in DOMAIN round[i].refs |-> heap[round[i].refs[k]]]
                      /\ \A j \in DOMAIN round : round[j].listener = c => j = i
           ELSE round = <<>>

\* A submit has just added a second project: both lists were called at
\* depth one with the two stored projects.
C16_Witness ==
    /\ last.op = "submit"
    /\ Len(last.api) = 1
    /\ last.api[1].depth = 1
    /\ Len(round) = 2
    /\ round[1].depth = 1
    /\ round[2].depth = 1
    /\ Len(round[2].items) = 2
    /\ round[2].refs = stores[instance].projects

\* The callbacks from outside the repository registered on store r, and
\* the place of a callback among the listeners of r.
Outside(r) == {c \in Registered(r) : closures[c].kind = "external"}
PlaceOf(r, c) == CHOOSE k \in DOMAIN stores[r].listeners : stores[r].listeners[k] = c

\* C17: the store has no guard against re-entry.  When a callback, called
\* with a list whose first project is Active, calls moveProject for it,
\* the nested call's whole round (every listener, in order, one level
\* deeper, shown the project as Finished) runs at once, and only then are
\* the listeners after that callback called at the outer level.  And when
\* a callback calls addProject at every notification, an addProject on a
\* store with such a callback enters addProject again at every depth the
\* stack has room for and ends in a RangeError instead of returning.
C17_NestedCallsRunAtOnce ==
    [][/\ (last'.op \in {"addProject", "moveProject"} /\ last'.act = "moveProject") =>
             /\ last'.error = "none"
             /\ \A i \in DOMAIN round' :
                   (/\ round'[i].wrote = "moveProject"
                    /\ round'[i].items # <<>>
                    /\ round'[i].items[1].status = "Active") =>
                      LET ls == stores[last'.r].listeners
                          n == Len(ls)
                          d == round'[i].depth
                          place == PlaceOf(last'.r, round'[i].listener)
                      IN  /\ Len(round') = i + n + (n - place)
                          /\ \A k \in 1..n :
                                /\ round'[i + k].listener = ls[k]
                                /\ round'[i + k].depth = d + 1
                                /\ round'[i + k].items[1].status = "Finished"
                          /\ \A j \in (place + 1)..n :
                                /\ round'[i + n + (j - place)].listener = ls[j]
                                /\ round'[i + n + (j - place)].depth = d
       /\ (/\ last'.op = "addProject"
           /\ last'.act = "addProject"
           /\ Outside(last'.r) # {}) =>
             /\ last'.error = "RangeError"
             /\ Len(last'.api) = MaxDepth
             /\ \A i \in DOMAIN last'.api :
                   /\ last'.api[i].op = "addProject"
                   /\ last'.api[i].depth = i
             /\ Len(StoredAfter(last'.r)) > Len(Stored(last'.r)) + 1
      ]_vars

\* An addProject on a store whose listeners are an outside callback and
\* then the active list: the callback moved the new project to Finished
\* from inside its call, both listeners were called for that at depth two,
\* and only then the list was called at depth one; it shows nothing.
C17_Witness ==
    /\ last.op = "addProject"
    /\ last.act = "moveProject"
    /\ last.error = "none"
    /\ Len(closures) = 2
    /\ closures[1].kind = "external"
    /\ closures[2].kind = "active"
    /\ [i \in DOMAIN round |-> round[i].depth] = <<1, 2, 2, 1>>
    /\ [i \in DOMAIN round |-> round[i].listener] = <<1, 1, 2, 2>>
    /\ [i \in DOMAIN last.api |-> last.api[i].op] = <<"addProject", "moveProject">>
    /\ closures[2].assignedProjects = <<>>
    /\ heap[1].status = "Finished"

\* The stored references, in store order, whose project has the status.
RECURSIVE Having(_, _)
Having(arr, status) ==
    IF arr = <<>> THEN <<>>
    ELSE IF heap[Head(arr)].status = status
         THEN <<Head(arr)>> \o Having(Tail(arr), status)
         ELSE Having(Tail(arr), status)
\* The positions at which a list shows a stored entry.
ShownIn(c, i) ==
    {k \in DOMAIN closures[c].assignedProjects :
        closures[c].assignedProjects[k] = stores[instance].projects[i]}

\* C18: on the board, after every event, the active list's assignedProjects
\* is exactly the stored projects with status Active and the finished
\* list's exactly those with status Finished, each in store order; every
\* stored project is shown once, in one of the two lists.
C18_ListsPartitionTheStore ==
    /\ closures[1].kind = "active"
    /\ closures[2].kind = "finished"
    /\ closures[1].assignedProjects = Having(stores[instance].projects, "Active")
    /\ closures[2].assignedProjects = Having(stores[instance].projects, "Finished")
    /\ \A i \in DOMAIN stores[instance].projects :
          Cardinality(ShownIn(1, i)) + Cardinality(ShownIn(2, i)) = 1

\* Two projects are stored, the first finished and the second active, after
\* a drop: the finished list shows the first and the active list the second.
C18_Witness ==
    /\ last.op = "drop"
    /\ last.moved
    /\ Len(stores[instance].projects) = 2
    /\ heap[stores[instance].projects[1]].status = "Finished"
    /\ heap[stores[instance].projects[2]].status = "Active"
    /\ closures[1].assignedProjects = <<stores[instance].projects[2]>>
    /\ closures[2].assignedProjects = <<stores[instance].projects[1]>>

\* C19: a drop of a dragged project item on a list sets that project's
\* status to the list's own status (Active for the active list, Finished
\* for the finished list): when the project was in the other list it is
\* moved and both lists are called to render again; when it was in this
\* list already nothing changes and nobody is called; and a drop whose text
\* is not the id of a stored project changes nothing.
C19_DropSetsTheDraggedProjectsStatus ==
    [][last'.op = "drop" =>
          LET own == IF closures[last'.list].kind = "active"
                     THEN "Active" ELSE "Finished"
              o == last'.item
          IN  IF o # 0
              THEN /\ heap'[o].status = own
                   /\ \A p \in DOMAIN heap : p # o => heap'[p] = heap[p]
                   /\ StoredAfter(instance) = Stored(instance)
                   /\ IF heap[o].status # own
                      THEN \A c \in DOMAIN closures : CallsAfter(c) = 1
                      ELSE round' = <<>> /\ closures' = closures
              ELSE Carrying(instance, last'.id) = {} =>
                      /\ heap' = heap
                      /\ stores' = stores
                      /\ closures' = closures
                      /\ round' = <<>>
      ]_vars

\* What the claim calls a submission that fails validation: a blank title,
\* a description that is blank or shorter than 5 characters, people that is
\* missing or no number, or a number below 1 or above 5.
Fails(entered) ==
    \/ Blank(entered.title)
    \/ Blank(entered.description)
    \/ Len(entered.description) < 5
    \/ entered.people = <<>>
    \/ isNaN(parseInt(entered.people, 10))
    \/ parseInt(entered.people, 10).n < 1
    \/ parseInt(entered.people, 10).n > 5

\* C20: a submit that fails validation calls no store method and no
\* callback, leaves the store and the lists as they were and leaves the
\* fields holding what was entered; the fields are emptied only by a submit
\* that called addProject, and no other event touches them.
C20_FailedSubmitChangesNothing ==
    [][/\ (last'.op = "submit" /\ Fails(last'.entered)) =>
             /\ last'.alert
             /\ last'.api = <<>>
             /\ round' = <<>>
             /\ stores' = stores
             /\ heap' = heap
             /\ closures' = closures
             /\ projectInput' = last'.entered
       /\ (last'.op = "submit" /\ projectInput' = clearInputs
             /\ last'.entered # clearInputs) =>
             /\ Len(last'.api) = 1
             /\ last'.api[1].op = "addProject"
       /\ last'.op # "submit" => projectInput' = projectInput
      ]_vars

\* A submit with six people has just been refused while a project is
\* stored: nobody was called, and the fields still hold the entry.
C20_Witness ==
    /\ last.op = "submit"
    /\ last.alert
    /\ last.api = <<>>
    /\ last.entered.people = <<"6">>
    /\ projectInput = last.entered
    /\ round = <<>>
    /\ Len(heap) = 1
    /\ closures[1].assignedProjects = <<1>>

\* The ids of a sequence of records, and of the stored entries of r before
\* and after a step.
IdsOf(records) == [i \in DOMAIN records |-> records[i].id]
StoredIds(r) == [i \in DOMAIN Stored(r) |-> heap[Stored(r)[i]].id]
StoredIdsAfter(r) == [i \in DOMAIN StoredAfter(r) |-> heap'[StoredAfter(r)[i]].id]
IsPrefix(short, long) ==
    /\ Len(short) <= Len(long)
    /\ SubSeq(long, 1, Len(short)) = short

\* C21: the stored sequence only grows at its end.  Across every step the
\* stored references and their ids before the step are a prefix of those
\* after it (nothing is removed, nothing changes place, no id changes), a
\* list a callback receives in the step is the stored sequence after it,
\* and the ids of a list it received in the operation before are a prefix
\* of the ids of the list it receives now.
C21_StoredSequenceGrowsAtItsEnd ==
    [][/\ \A r \in DOMAIN stores :
             /\ IsPrefix(Stored(r), StoredAfter(r))
             /\ IsPrefix(StoredIds(r), StoredIdsAfter(r))
       /\ \A j \in DOMAIN round' :
             /\ round'[j].refs = StoredAfter(instance')
             /\ IdsOf(round'[j].items) = StoredIdsAfter(instance')
             /\ \A i \in DOMAIN round :
                   round[i].listener = round'[j].listener =>
                      IsPrefix(IdsOf(round[i].items), IdsOf(round'[j].items))
      ]_vars

\* The first of two stored projects has just been moved to Finished, right
\* after the second was added: the callback received two ids then and the
\* same two now.
C21_Witness ==
    /\ last.op = "moveProject"
    /\ last.moved
    /\ ~last.again
    /\ Len(stores[last.r].projects) = 2
    /\ heap[stores[last.r].projects[1]].id = last.id
    /\ heap[stores[last.r].projects[1]].status = "Finished"
    /\ heap[stores[last.r].projects[2]].status = "Active"
    /\ round # <<>>
    /\ \A i \in DOMAIN round :
          /\ round[i].refs = stores[last.r].projects
          /\ Len(round[i].items) = 2

\* How often callback c was called by the operation before this step.
CallsBefore(c) == Cardinality({i \in DOMAIN round : round[i].listener = c})

\* C22: moving a project and moving it back is a round trip.  When a
\* moveProject(id, t) has changed a status and the next call is
\* moveProject(id, s) with s the other status, the records and the stored
\* sequence after the second call are those from before the first, and
\* every registered callback was called once by each call, twice in all.
C22_MoveRoundTrip ==
    [][(/\ last.op = "moveProject"
        /\ last.moved
        /\ last'.op = "moveProject"
        /\ <<last'.r, last'.id>> = <<last.r, last.id>>
        /\ last'.status # last.status) =>
          /\ heap' = last.before.heap
          /\ StoredAfter(last'.r) = last.before.projects
          /\ Stored(last'.r) = last.before.projects
          /\ stores'[last'.r].listeners = stores[last'.r].listeners
          /\ \A c \in Registered(last'.r) :
                /\ CallsBefore(c) = 1
                /\ CallsAfter(c) = 1
          /\ Len(round) + Len(round') = 2 * Len(stores[last'.r].listeners)
      ]_vars

\* The second of two projects was moved to Finished and has just been
\* moved back: both are active again and two callbacks were called.
C22_Witness ==
    /\ last.op = "moveProject"
    /\ last.back
    /\ last.moved
    /\ last.status = "Active"
    /\ Len(stores[last.r].projects) = 2
    /\ last.before.heap[stores[last.r].projects[2]].status = "Finished"
    /\ \A o \in DOMAIN heap : heap[o].status = "Active"
    /\ Len(round) = 2

\* C23: a callback registered while the store holds projects is not called
\* at its registration and is shown nothing until the next call of
\* addProject or of moveProject that changes the store; from then on the
\* list it was last handed is the complete stored sequence, the projects
\* added before its registration included; and the number of its calls is
\* the number of such mutations since its registration.
C23_NoReplayAndOneCallPerMutation ==
    /\ \A c \in DOMAIN closures :
          /\ closures[c].calls = closures[c].due
          /\ closures[c].calls = 0 => closures[c].assignedProjects = <<>>
          /\ closures[c].calls > 0 =>
                closures[c].assignedProjects = stores[instance].projects
    /\ last.op = "addListener" =>
          /\ round = <<>>
          /\ closures[last.listener].calls = 0

\* The second callback was registered when one project was stored and has
\* now had its first call, from a moveProject, with that project; the
\* first callback, registered on the empty store, has had two calls.
C23_Witness ==
    /\ last.op = "moveProject"
    /\ last.moved
    /\ Len(closures) = 2
    /\ closures[1].at = 0
    /\ closures[1].calls = 2
    /\ closures[2].at = 1
    /\ closures[2].calls = 1
    /\ closures[2].assignedProjects = stores[instance].projects
    /\ Len(stores[instance].projects) = 1

\* C24: the stores without moveProject (main.ts, part_002) behave as the
\* full store of part_003 on getInstance, addListener and addProject: in
\* every state either script reaches, addListener and addProject leave the
\* same stores, records, listeners' lists and notifications (in the same
\* order) as the full store's methods do from that state, every step the
\* script takes is the step the full store takes on the same call, every
\* stored project is Active and the finished list holds no project.
C24_VariantsBehaveAsTheFullStore ==
    /\ [](\A r \in refs :
            /\ \A inp \in Inputs, rnd \in RandomIds :
                  LET full == addProject(Now("none"), r, inp[1], inp[2], inp[3], rnd)
                  IN  /\ addProject_main(Now("none"), r, inp[1], inp[2], inp[3], rnd) = full
                      /\ addProject_part_002(Now("none"), r, inp[1], inp[2], inp[3], rnd) = full
            /\ \A c \in DOMAIN closures :
                  /\ addListener_main(Now("none"), r, c) = addListener(Now("none"), r, c)
                  /\ addListener_part_002(Now("none"), r, c) = addListener(Now("none"), r, c))
    /\ [][/\ \/ getInstance
             \/ \E r \in refs, type \in ListTypes : AddListener(r, type)
             \/ \E r \in refs, inp \in Inputs, rnd \in RandomIds :
                   AddProject(r, inp[1], inp[2], inp[3], rnd, "none")
          /\ \A o \in DOMAIN heap' : heap'[o].status = "Active"
          /\ \A c \in DOMAIN closures' :
                closures'[c].kind = "finished" => closures'[c].assignedProjects = <<>>
         ]_vars

\* The part_002 script has added its second project with both lists
\* subscribed: both were notified, the finished list second, and that list
\* shows nothing.
C24_Witness ==
    /\ program = "part_002"
    /\ last.op = "addProject"
    /\ Len(heap) = 2
    /\ Len(round) = 2
    /\ closures[round[1].listener].kind = "active"
    /\ closures[round[2].listener].kind = "finished"
    /\ Len(round[2].items) = 2
    /\ closures[round[2].listener].assignedProjects = <<>>
    /\ Len(closures[round[1].listener].assignedProjects) = 2

\* What the configured constraints of a Validatable ask of its value.
Required(v) == Has(v, "required") /\ v.required
ConstraintsHold(v) ==
    /\ Required(v) => ~isNaN(v.value) /\ ~Blank(toString(v.value))
    /\ Has(v, "minLength") /\ v.value.type = "string" =>
          Len(v.value.chars) >= v.minLength
    /\ Has(v, "maxLength") /\ v.value.type = "string" =>
          Len(v.value.chars) <= v.maxLength
    /\ Has(v, "min") /\ v.value.type = "number" /\ ~v.value.nan => v.value.n >= v.min
    /\ Has(v, "max") /\ v.value.type = "number" /\ ~v.value.nan => v.value.n <= v.max
\* v without the constraints that do not bind a value of its type.
Binding(v) ==
    [f \in {g \in DOMAIN v :
               /\ g \in {"minLength", "maxLength"} => v.value.type = "string"
               /\ g \in {"min", "max"} => v.value.type = "number"} |-> v[f]]

\* C25: validate (of utils/validation.ts and of main.ts) returns true
\* exactly when every configured constraint holds: required asks for a value
\* that is not NaN and whose string form is not blank after trimming, the
\* lengths bind strings only (their untrimmed length), the range binds
\* numbers only; constraints that are left out or do not bind the value's
\* type change nothing, and a NaN that is not required passes any range.
C25_ValidateChecksTheConfiguredConstraints ==
    last.op \in {"validate", "validate_main"} =>
        LET v == last.validatableInput
        IN  /\ last.result = ConstraintsHold(v)
            /\ last.result = validate(Binding(v))
            /\ last.result = validate_main(Binding(v))
            /\ isNaN(v.value) /\ ~Required(v) => last.result
            /\ DOMAIN v = {"value"} => last.result

\* validate has accepted a NaN whose required is false although min and
\* max are configured.
C25_Witness ==
    /\ last.op = "validate"
    /\ isNaN(last.validatableInput.value)
    /\ Has(last.validatableInput, "min")
    /\ Has(last.validatableInput, "max")
    /\ Has(last.validatableInput, "required")
    /\ ~last.validatableInput.required
    /\ last.result

====
